---- MODULE Spec2Model ----
(***************************************************************************)
(* State-machine model of the TouristHeatMap component                     *)
(* (src/components/TouristHeatMap.tsx): the mock synthesizers, the         *)
(* fetchTouristData call with its API-then-mock fallback, and the two      *)
(* effects that start a fetch on mount / city change and every 30 seconds. *)
(* The cache layer of the backend is not part of the sources; it is        *)
(* modelled from its written contract.                                     *)
(*                                                                         *)
(* Units: latitudes and longitudes are integers in 1e-4 degrees (the       *)
(* anchor tables have four decimals).  A Math.random() result is k /       *)
(* RandDenom for an integer k in 0 .. RandDenom-1.                         *)
(***************************************************************************)
EXTENDS Integers, Sequences, FiniteSets, TLC

\* ---------------------------------------------------------------- bounds
\* resolution of Math.random(): its results are k / RandDenom
RandDenom == 4
\* fetchTouristData calls that may be in flight together
MaxCalls == 2
\* 30-second timer ticks observed in one run
MaxTicks == 1
\* city-prop changes observed in one run
MaxChanges == 1

\* get_or_compute calls observed in one run
MaxReads == 4
\* the clock of the cache layer runs from 0 to MaxClock seconds
MaxClock == 60

\* ------------------------------------------------------------ JS values
Arr(s) == [kind |-> "array", items |-> s]

Undefined == [kind |-> "undefined", items |-> <<>>]

\* a thrown TypeError (x.map is not a function)
TypeError == [kind |-> "throw", items |-> <<>>]

\* a function object found on the prototype chain (Object.prototype members)
FunctionObject == [kind |-> "function", items |-> <<>>]

\* a number num/den; averages are kept as the exact quotient
Num(n, d) == [kind |-> "number", num |-> n, den |-> d]

UndefinedNum == [kind |-> "undefined", num |-> 0, den |-> 1]

\* names every object literal inherits from Object.prototype
InheritedNames == {"constructor", "toString", "hasOwnProperty", "valueOf"}

\* --------------------------------------------------------- anchor tables
basePositions ==
  [ Delhi |-> << [lat |-> 286139, lng |-> 772090, name |-> "India Gate"],
                 [lat |-> 286562, lng |-> 772410, name |-> "Red Fort"],
                 [lat |-> 285244, lng |-> 771855, name |-> "Qutub Minar"],
                 [lat |-> 286129, lng |-> 772295, name |-> "Connaught Place"],
                 [lat |-> 285355, lng |-> 772459, name |-> "Chandni Chowk"] >>,
    Agra  |-> << [lat |-> 271751, lng |-> 780421, name |-> "Taj Mahal"],
                 [lat |-> 271833, lng |-> 780167, name |-> "Agra Fort"],
                 [lat |-> 272167, lng |-> 780167, name |-> "Fatehpur Sikri"] >>,
    Jaipur |-> << [lat |-> 269124, lng |-> 757873, name |-> "City Palace"],
                  [lat |-> 269239, lng |-> 758267, name |-> "Hawa Mahal"],
                  [lat |-> 269859, lng |-> 758513, name |-> "Amber Fort"] >> ]

baseZones ==
  [ Delhi |-> << [id |-> "zone-1", name |-> "Central Delhi",
                  position |-> [lat |-> 286139, lng |-> 772090], radius |-> 2000,
                  safetyLevel |-> "medium", color |-> "#fbbf24",
                  description |-> "Moderate safety zone with regular patrols"],
                 [id |-> "zone-2", name |-> "Old Delhi",
                  position |-> [lat |-> 286562, lng |-> 772410], radius |-> 1500,
                  safetyLevel |-> "high", color |-> "#ef4444",
                  description |-> "High-risk area with increased monitoring"],
                 [id |-> "zone-3", name |-> "New Delhi",
                  position |-> [lat |-> 286129, lng |-> 772295], radius |-> 3000,
                  safetyLevel |-> "low", color |-> "#10b981",
                  description |-> "Safe zone with excellent infrastructure"] >>,
    Agra  |-> << [id |-> "zone-1", name |-> "Taj Mahal Area",
                  position |-> [lat |-> 271751, lng |-> 780421], radius |-> 1000,
                  safetyLevel |-> "low", color |-> "#10b981",
                  description |-> "Highly secured tourist area"],
                 [id |-> "zone-2", name |-> "City Center",
                  position |-> [lat |-> 271833, lng |-> 780167], radius |-> 2000,
                  safetyLevel |-> "medium", color |-> "#fbbf24",
                  description |-> "Moderate safety with good facilities"] >>,
    Jaipur |-> << [id |-> "zone-1", name |-> "Pink City",
                   position |-> [lat |-> 269124, lng |-> 757873], radius |-> 2500,
                   safetyLevel |-> "low", color |-> "#10b981",
                   description |-> "Well-maintained heritage area"],
                  [id |-> "zone-2", name |-> "Outskirts",
                   position |-> [lat |-> 269859, lng |-> 758513], radius |-> 3000,
                   safetyLevel |-> "medium", color |-> "#fbbf24",
                   description |-> "Moderate safety with some concerns"] >> ]

\* the own keys of both tables
TableKeys == {"Delhi", "Agra", "Jaipur"}

\* city names the model passes in: the table keys, a name that is no
\* property at all, and a name found on the prototype chain
Cities == TableKeys \cup {"Mumbai", "constructor"}

\* table[city] as JavaScript evaluates it: own key, inherited member, or undefined
Lookup(table, city) ==
  IF city \in TableKeys THEN Arr(table[city])
  ELSE IF city \in InheritedNames THEN FunctionObject
  ELSE Undefined

\* a || b for the values Lookup returns: only undefined is falsy
OrElse(a, b) == IF a.kind = "undefined" THEN b ELSE a

\* ------------------------------------------------------------ randomness
\* the i-th Math.random() draw of a synthesis run whose stream starts at seed
Rand(seed, i) == (seed + i) % RandDenom

\* Math.floor(Math.random() * n)
FloorRand(k, n) == (k * n) \div RandDenom

\* the jitter with a factor of 0.1 in place of 0.01
JitterWide(k) == (k * 1000) \div RandDenom - 500

\* (Math.random() - 0.5) * 0.01 degrees, in 1e-4 degrees
Jitter(k) == (k * 100) \div RandDenom - 50

Nationalities == <<"Indian", "American", "British", "German", "French">>

\* the body of positions.map((pos, index) => ...): index is 0-based
MockLocation(city, pos, index, seed, now) ==
  [ id          |-> "tourist-" \o city \o "-" \o ToString(index),
    position    |-> [lat |-> pos.lat + Jitter(Rand(seed, 6 * index)),
                     lng |-> pos.lng + Jitter(Rand(seed, 6 * index + 1))],
    count       |-> FloorRand(Rand(seed, 6 * index + 2), 50) + 10,
    safetyScore |-> FloorRand(Rand(seed, 6 * index + 3), 4) + 6,
    lastUpdate  |-> now,
    nationality |-> Nationalities[FloorRand(Rand(seed, 6 * index + 4), 5) + 1],
    groupSize   |-> FloorRand(Rand(seed, 6 * index + 5), 8) + 1 ]

generateMockTouristData(city, seed, now) ==
  LET positions == OrElse(Lookup(basePositions, city), Arr(basePositions["Delhi"]))
  IN  IF positions.kind # "array" THEN TypeError
      ELSE Arr([i \in 1 .. Len(positions.items) |->
                  MockLocation(city, positions.items[i], i - 1, seed, now)])

\* the zone lookup falling back to Agra's zones
generateMockSafetyZonesAgra(city) ==
  OrElse(Lookup(baseZones, city), Arr(baseZones["Agra"]))

generateMockSafetyZones(city) ==
  OrElse(Lookup(baseZones, city), Arr(baseZones["Delhi"]))

\* ----------------------------------------------------- API response body
\* the body GET /api/tourist-heatmap/data/{city} documents, for the city asked
WellFormedBody(c) ==
  LET anchors == IF c \in TableKeys THEN basePositions[c] ELSE basePositions["Delhi"]
      zone    == IF c \in TableKeys THEN baseZones[c][1] ELSE baseZones["Delhi"][1]
  IN [ tourist_locations |->
         Arr(<< [ id |-> "tourist-" \o c \o "-0",
                  position |-> [lat |-> anchors[1].lat, lng |-> anchors[1].lng],
                  count |-> 45, safety_score |-> Num(82, 10),
                  last_update |-> "2025-01-21T10:30:00Z",
                  nationality |-> "Indian", group_size |-> 3,
                  age_group |-> "26-35", experience_level |-> "intermediate" ] >>),
       safety_zones |->
         Arr(<< [ id |-> "zone-" \o c \o "-0", name |-> zone.name,
                  position |-> zone.position, radius |-> zone.radius,
                  safety_level |-> zone.safetyLevel, color |-> zone.color,
                  description |-> zone.description, tourist_count |-> 120 ] >>),
       total_tourists |-> Num(452, 1),
       average_safety_score |-> Num(78, 10) ]

\* a body that parses as JSON but carries none of the four fields, e.g. {}
EmptyBody ==
  [ tourist_locations |-> Undefined, safety_zones |-> Undefined,
    total_tourists |-> UndefinedNum, average_safety_score |-> UndefinedNum ]

\* what the upstream may answer to a request for city c
Pending == [kind |-> "pending", data |-> EmptyBody]

Outcomes(c) ==
  { [kind |-> "reject",  data |-> EmptyBody],
    [kind |-> "notok",   data |-> EmptyBody],
    [kind |-> "badjson", data |-> EmptyBody],
    [kind |-> "ok",      data |-> WellFormedBody(c)],
    [kind |-> "ok",      data |-> EmptyBody] }

\* the answers after which the code takes the mock branch
FailureKinds == {"reject", "notok", "badjson"}

\* ------------------------------------------------------- component state
VARIABLES
  mounted,             \* the component instance is mounted
  city,                \* the city prop of the last render
  touristLocations,    \* useState<TouristLocation[]>([])
  safetyZones,         \* useState<SafetyZone[]>([])
  loading,             \* useState(false)
  error,               \* useState<string | null>(null)
  totalTourists,       \* useState(0)
  averageSafetyScore,  \* useState(0)
  calls,               \* fetchTouristData calls suspended at an await: city, answer, tick of start
  intervals,           \* live setInterval timers, each with the city it closed over
  ticks,               \* 30-second periods elapsed (the clock of new Date())
  changes,             \* city-prop changes so far
  ev                   \* the handler that ran last, with its inputs

compVars == <<mounted, city, touristLocations, safetyZones, loading, error,
              totalTourists, averageSafetyScore, calls, intervals, ticks,
              changes, ev>>

\* the synthesizers applied on their own
VARIABLES
  synCityA, synSeedA,      \* first invocation: city argument, Math.random stream
  synCityB, synSeedB,      \* second invocation
  synNowB,                 \* the clock at the second invocation (the first is at 0)
  synLocsA, synZonesA,     \* what the first invocation returned
  synLocsB, synZonesB      \* what the second invocation returned

synVars == <<synCityA, synSeedA, synCityB, synSeedB, synNowB,
             synLocsA, synZonesA, synLocsB, synZonesB>>

\* the cache layer
VARIABLES
  clock,       \* current time, seconds
  cache,       \* key -> CacheEntry or NoEntry
  reads,       \* get_or_compute calls so far
  lastRead     \* the last get_or_compute call and what it returned

cacheVars == <<clock, cache, reads, lastRead>>

\* the banding functions applied on their own
VARIABLES
  bScore,          \* a safety score handed to getSafetyColor / getSafetyLevel
  bTemp,           \* a temperature, in tenths of a degree Celsius
  bCrimeLive,      \* the crime record came from the live source
  bWeatherLive,    \* the weather record came from the live source
  bColor, bLevel,  \* getSafetyColor(bScore), getSafetyLevel(bScore)
  bTempBand,       \* the temperature band of bTemp
  bConfidence      \* the confidence of the assessment, in hundredths

bandVars == <<bScore, bTemp, bCrimeLive, bWeatherLive, bColor, bLevel,
              bTempBand, bConfidence>>

\* map clicks
VARIABLES
  selectedLocation,   \* useState<TouristLocation | null>(null)
  clickPos            \* the position of the last map click

clickVars == <<selectedLocation, clickPos>>

\* error === null
Null == "null"

ErrorMessage == "Failed to fetch tourist data. Please try again."

NoEvent == [op |-> "none", city |-> "", kind |-> "", seed |-> 0, now |-> 0,
            data |-> EmptyBody]

Event(op, c, kind, seed, now) ==
  [op |-> op, city |-> c, kind |-> kind, seed |-> seed, now |-> now,
   data |-> EmptyBody]

RECURSIVE SumOf(_, _)
\* items.reduce((sum, loc) => sum + loc[field], 0)
SumOf(items, field) ==
  IF items = <<>> THEN 0 ELSE Head(items)[field] + SumOf(Tail(items), field)

RemoveAt(seq, i) == SubSeq(seq, 1, i - 1) \o SubSeq(seq, i + 1, Len(seq))

CompInit ==
  /\ mounted = FALSE
  /\ city = "Delhi"
  /\ touristLocations = Arr(<<>>)
  /\ safetyZones = Arr(<<>>)
  /\ loading = FALSE
  /\ error = Null
  /\ totalTourists = Num(0, 1)
  /\ averageSafetyScore = Num(0, 1)
  /\ calls = <<>>
  /\ intervals = <<>>
  /\ ticks = 0
  /\ changes = 0
  /\ ev = NoEvent

\* fetchTouristData up to its first await: the two setters, then the request
StartFetch(cityName) ==
  /\ loading' = TRUE
  /\ error' = Null
  /\ calls' = Append(calls, [city |-> cityName, st |-> Pending, since |-> ticks])

\* a cleanup that leaves the timer running
PollingCleanupLeak(ivs) == ivs

\* the cleanup of the polling effect: clearInterval(interval) of its own timer
PollingCleanup(ivs) == SubSeq(ivs, 1, Len(ivs) - 1)

\* the body of the polling effect: setInterval(() => fetchTouristData(city), 30000)
PollingEffect(ivs, c) == Append(ivs, c)

\* first render with city prop c: both effects run
Mount(c) ==
  /\ ~mounted
  /\ ev.op = "none"
  /\ Len(calls) < MaxCalls
  /\ mounted' = TRUE
  /\ city' = c
  /\ StartFetch(c)
  /\ intervals' = PollingEffect(intervals, c)
  /\ ev' = Event("mount", c, "", 0, ticks)
  /\ UNCHANGED <<touristLocations, safetyZones, totalTourists,
                 averageSafetyScore, ticks, changes>>
  /\ UNCHANGED <<synVars, cacheVars, bandVars, clickVars>>

\* re-render with a different city prop: both effects re-run, the polling
\* effect after its cleanup
ChangeCity(c) ==
  /\ mounted
  /\ c # city
  /\ changes < MaxChanges
  /\ Len(calls) < MaxCalls
  /\ city' = c
  /\ StartFetch(c)
  /\ intervals' = PollingEffect(PollingCleanup(intervals), c)
  /\ changes' = changes + 1
  /\ ev' = Event("change", c, "", 0, ticks)
  /\ UNCHANGED <<mounted, touristLocations, safetyZones, totalTourists,
                 averageSafetyScore, ticks>>
  /\ UNCHANGED <<synVars, cacheVars, bandVars, clickVars>>

\* a 30-second timer fires: its callback calls fetchTouristData with the
\* city the callback closed over
Tick(i) ==
  /\ i \in 1 .. Len(intervals)
  /\ ticks < MaxTicks
  /\ Len(calls) < MaxCalls
  /\ StartFetch(intervals[i])
  /\ ticks' = ticks + 1
  /\ ev' = Event("tick", intervals[i], "", 0, ticks + 1)
  /\ UNCHANGED <<mounted, city, touristLocations, safetyZones, totalTourists,
                 averageSafetyScore, intervals, changes>>
  /\ UNCHANGED <<synVars, cacheVars, bandVars, clickVars>>

\* the component is removed: the polling effect's cleanup runs
Unmount ==
  /\ mounted
  /\ mounted' = FALSE
  /\ intervals' = PollingCleanup(intervals)
  /\ ev' = Event("unmount", city, "", 0, ticks)
  /\ UNCHANGED <<city, touristLocations, safetyZones, loading, error,
                 totalTourists, averageSafetyScore, calls, ticks, changes>>
  /\ UNCHANGED <<synVars, cacheVars, bandVars, clickVars>>

\* the upstream answers call i (the environment's step; nothing bounds its delay)
Settle(i, o) ==
  /\ i \in 1 .. Len(calls)
  /\ calls[i].st = Pending
  /\ o \in Outcomes(calls[i].city)
  /\ calls' = [calls EXCEPT ![i].st = o]
  /\ ev' = Event("settle", calls[i].city, o.kind, 0, ticks)
  /\ UNCHANGED <<mounted, city, touristLocations, safetyZones, loading, error,
                 totalTourists, averageSafetyScore, intervals, ticks, changes>>
  /\ UNCHANGED <<synVars, cacheVars, bandVars, clickVars>>

\* the API branch: the four setters on the parsed body, then return
StoreResponse(data) ==
  /\ touristLocations' = data.tourist_locations
  /\ safetyZones' = data.safety_zones
  /\ totalTourists' = data.total_tourists
  /\ averageSafetyScore' = data.average_safety_score
  /\ error' = error

\* the mock branch; a throw of the generator lands in the outer catch
StoreMock(cityName, seed, now) ==
  LET mockTourists == generateMockTouristData(cityName, seed, now)
      mockZones    == generateMockSafetyZones(cityName)
  IN  IF mockTourists.kind = "throw"
      THEN /\ error' = ErrorMessage
           /\ UNCHANGED <<touristLocations, safetyZones, totalTourists,
                          averageSafetyScore>>
      ELSE /\ touristLocations' = mockTourists
           /\ safetyZones' = mockZones
           /\ totalTourists' = Num(SumOf(mockTourists.items, "count"), 1)
           /\ averageSafetyScore' =
                Num(SumOf(mockTourists.items, "safetyScore"), Len(mockTourists.items))
           /\ error' = error

\* fetchTouristData from its await to its end, for a settled call; the
\* setters of an unmounted component change nothing
Resume(i, seed) ==
  /\ i \in 1 .. Len(calls)
  /\ calls[i].st # Pending
  /\ seed \in 0 .. RandDenom - 1
  /\ (calls[i].st.kind = "ok" \/ ~mounted) => seed = 0
  /\ calls' = RemoveAt(calls, i)
  /\ ev' = [Event("resume", calls[i].city, calls[i].st.kind, seed, ticks)
              EXCEPT !.data = calls[i].st.data]
  /\ IF mounted
     THEN /\ IF calls[i].st.kind = "ok"
             THEN StoreResponse(calls[i].st.data)
             ELSE StoreMock(calls[i].city, seed, ticks)
          /\ loading' = FALSE
     ELSE UNCHANGED <<touristLocations, safetyZones, loading, error,
                      totalTourists, averageSafetyScore>>
  /\ UNCHANGED <<mounted, city, intervals, ticks, changes>>
  /\ UNCHANGED <<synVars, cacheVars, bandVars, clickVars>>

\* ------------------------------------------- the synthesizers on their own
NotRun == [kind |-> "none", items |-> <<>>]

SynIdle ==
  /\ synCityA = "Delhi" /\ synSeedA = 0
  /\ synCityB = "Delhi" /\ synSeedB = 0
  /\ synNowB = 0
  /\ synLocsA = NotRun /\ synZonesA = NotRun
  /\ synLocsB = NotRun /\ synZonesB = NotRun

SynInit ==
  /\ synCityA \in Cities /\ synSeedA \in 0 .. RandDenom - 1
  /\ synCityB \in Cities /\ synSeedB \in 0 .. RandDenom - 1
  /\ synNowB \in 0 .. 1
  /\ synLocsA = NotRun /\ synZonesA = NotRun
  /\ synLocsB = NotRun /\ synZonesB = NotRun

\* generateMockTouristData(city) and generateMockSafetyZones(city), first call
SynthesizeA ==
  /\ synLocsA = NotRun
  /\ synLocsA' = generateMockTouristData(synCityA, synSeedA, 0)
  /\ synZonesA' = generateMockSafetyZones(synCityA)
  /\ UNCHANGED <<synCityA, synSeedA, synCityB, synSeedB, synNowB,
                 synLocsB, synZonesB>>
  /\ UNCHANGED <<compVars, cacheVars, bandVars, clickVars>>

\* the same two calls again, later
SynthesizeB ==
  /\ synLocsA # NotRun
  /\ synLocsB = NotRun
  /\ synLocsB' = generateMockTouristData(synCityB, synSeedB, synNowB)
  /\ synZonesB' = generateMockSafetyZones(synCityB)
  /\ UNCHANGED <<synCityA, synSeedA, synCityB, synSeedB, synNowB,
                 synLocsA, synZonesA>>
  /\ UNCHANGED <<compVars, cacheVars, bandVars, clickVars>>

\* ------------------------------------------------------------ cache layer
\* seconds a heat-map response stays fresh
HeatMapTtl == 30

\* seconds that may pass between two observations of the clock
ClockSteps == {10, 15}

CacheKeys == {"heatmap:Delhi", "heatmap:Agra"}

\* what compute_fn can produce for a key
CacheValues == {"v1", "v2"}

NoEntry == [present |-> FALSE, value |-> "", inserted_at |-> 0, ttl |-> 0]

CacheEntry(v, t, ttl) == [present |-> TRUE, value |-> v, inserted_at |-> t, ttl |-> ttl]

NoRead == [n |-> 0, key |-> "", at |-> 0, computed |-> FALSE, failed |-> FALSE,
           value |-> "", inserted_at |-> 0]

CacheInit ==
  /\ clock = 0
  /\ cache = [k \in CacheKeys |-> NoEntry]
  /\ reads = 0
  /\ lastRead = NoRead

\* entries that never expire
ExpiredNever(e, now) == FALSE

\* a read after inserted_at + ttl is a miss
Expired(e, now) == now > e.inserted_at + e.ttl

\* get_or_compute(key, ttl, compute_fn); r is what compute_fn would do if
\* invoked: fail, or return a value
get_or_compute(key, ttl, r) ==
  /\ reads < MaxReads
  /\ reads' = reads + 1
  /\ IF cache[key].present /\ ~Expired(cache[key], clock)
     THEN /\ cache' = cache
          /\ lastRead' = [n |-> reads + 1, key |-> key, at |-> clock,
                          computed |-> FALSE, failed |-> FALSE,
                          value |-> cache[key].value,
                          inserted_at |-> cache[key].inserted_at]
     ELSE IF r = "fail"
     THEN /\ cache' = cache
          /\ lastRead' = [n |-> reads + 1, key |-> key, at |-> clock,
                          computed |-> TRUE, failed |-> TRUE,
                          value |-> "", inserted_at |-> 0]
     ELSE /\ cache' = [cache EXCEPT ![key] = CacheEntry(r, clock, ttl)]
          /\ lastRead' = [n |-> reads + 1, key |-> key, at |-> clock,
                          computed |-> TRUE, failed |-> FALSE,
                          value |-> r, inserted_at |-> clock]
  /\ UNCHANGED clock
  /\ UNCHANGED <<compVars, synVars, bandVars, clickVars>>

\* time passes
Advance(d) ==
  /\ clock + d <= MaxClock
  /\ clock' = clock + d
  /\ UNCHANGED <<cache, reads, lastRead>>
  /\ UNCHANGED <<compVars, synVars, bandVars, clickVars>>

\* ---------------------------------------------------------- map clicks
\* selectedLocation === null
SelectedNull == [kind |-> "null", items |-> <<>>]

\* selectedLocation holding a location
Selected(loc) == [kind |-> "object", items |-> <<loc>>]

NoClick == [lat |-> 0, lng |-> 0]

\* Math.pow(dlat, 2) + Math.pow(dlng, 2); the code compares the square
\* roots, which order the same way
DistanceSquared(location, position) ==
  (location.position.lat - position.lat) * (location.position.lat - position.lat)
  + (location.position.lng - position.lng) * (location.position.lng - position.lng)

RECURSIVE NearestFromLast(_, _, _)
\* the reduce with distance <= closestDistance
NearestFromLast(items, closest, position) ==
  IF items = <<>> THEN closest
  ELSE LET location == Head(items)
       IN  NearestFromLast(Tail(items),
                           IF DistanceSquared(location, position)
                                <= DistanceSquared(closest, position)
                           THEN location ELSE closest,
                           position)

RECURSIVE NearestFrom(_, _, _)
\* touristLocations.reduce((closest, location) => ..., closest) over items
NearestFrom(items, closest, position) ==
  IF items = <<>> THEN closest
  ELSE LET location == Head(items)
       IN  NearestFrom(Tail(items),
                       IF DistanceSquared(location, position)
                            < DistanceSquared(closest, position)
                       THEN location ELSE closest,
                       position)

\* a point away from every anchor
FarPoint == [lat |-> 280000, lng |-> 770000]

\* where the map is clicked: on a location, half-way between two locations
\* (where the grid has that point), or far from all of them
ClickPoints ==
  IF touristLocations.kind # "array" THEN {FarPoint}
  ELSE LET items == touristLocations.items
           n     == Len(items)
       IN  {FarPoint}
           \cup {items[i].position : i \in 1 .. n}
           \cup {[lat |-> (items[q[1]].position.lat + items[q[2]].position.lat) \div 2,
                  lng |-> (items[q[1]].position.lng + items[q[2]].position.lng) \div 2] :
                   q \in {r \in (1 .. n) \X (1 .. n) :
                      /\ r[1] < r[2]
                      /\ (items[r[1]].position.lat + items[r[2]].position.lat) % 2 = 0
                      /\ (items[r[1]].position.lng + items[r[2]].position.lng) % 2 = 0}}

\* the state of the mounted component after its first fetchTouristData(c)
\* call ended with answer o and, on the mock branch, random stream seed
FetchedState(c, o, seed) ==
  LET mock == generateMockTouristData(c, seed, 0)
  IN  /\ mounted = TRUE
      /\ city = c
      /\ calls = <<>>
      /\ intervals = <<c>>
      /\ ticks = 0
      /\ changes = 0
      /\ loading = FALSE
      /\ ev = [Event("resume", c, o.kind, seed, 0) EXCEPT !.data = o.data]
      /\ touristLocations = IF o.kind = "ok" THEN o.data.tourist_locations
                            ELSE IF mock.kind = "throw" THEN Arr(<<>>) ELSE mock
      /\ safetyZones = IF o.kind = "ok" THEN o.data.safety_zones
                       ELSE IF mock.kind = "throw" THEN Arr(<<>>)
                       ELSE generateMockSafetyZones(c)
      /\ totalTourists = IF o.kind = "ok" THEN o.data.total_tourists
                         ELSE IF mock.kind = "throw" THEN Num(0, 1)
                         ELSE Num(SumOf(mock.items, "count"), 1)
      /\ averageSafetyScore =
           IF o.kind = "ok" THEN o.data.average_safety_score
           ELSE IF mock.kind = "throw" THEN Num(0, 1)
           ELSE Num(SumOf(mock.items, "safetyScore"), Len(mock.items))
      /\ error = IF o.kind # "ok" /\ mock.kind = "throw" THEN ErrorMessage ELSE Null

ClickIdle == selectedLocation = SelectedNull /\ clickPos = NoClick

\* handleMapClick(position); on a touristLocations that is no array the
\* reduce call throws and the handler ends there
handleMapClick(position) ==
  /\ mounted
  /\ clickPos' = position
  /\ ev' = Event("click", city, "", 0, ticks)
  /\ IF touristLocations.kind = "array" /\ touristLocations.items # <<>>
     THEN selectedLocation' =
            Selected(NearestFrom(touristLocations.items,
                                 touristLocations.items[1], position))
     ELSE selectedLocation' = selectedLocation
  /\ UNCHANGED <<mounted, city, touristLocations, safetyZones, loading, error,
                 totalTourists, averageSafetyScore, calls, intervals, ticks,
                 changes>>
  /\ UNCHANGED <<synVars, cacheVars, bandVars>>

\* ------------------------------------------------------ banding functions
\* a score > 8 test in place of score >= 8
getSafetyColorOff(score) ==
  IF score > 8 THEN "#10b981"
  ELSE IF score >= 6 THEN "#fbbf24"
  ELSE IF score >= 4 THEN "#f97316"
  ELSE "#ef4444"

getSafetyColor(score) ==
  IF score >= 8 THEN "#10b981"
  ELSE IF score >= 6 THEN "#fbbf24"
  ELSE IF score >= 4 THEN "#f97316"
  ELSE "#ef4444"

getSafetyLevel(score) ==
  IF score >= 8 THEN "Safe"
  ELSE IF score >= 6 THEN "Moderate"
  ELSE IF score >= 4 THEN "Caution"
  ELSE "High Risk"

getZoneColor(level) ==
  CASE level = "low"      -> "#10b981"
    [] level = "medium"   -> "#fbbf24"
    [] level = "high"     -> "#f97316"
    [] level = "critical" -> "#ef4444"
    [] OTHER              -> "#6b7280"

\* confidence, in hundredths: base 1.0, 0.15 off per synthesized source, at least 0.3
ConfidenceBase == 100

ConfidencePenalty == 15

ConfidenceFloor == 30

\* the penalty added instead of subtracted
ConfidenceAdded(nSynth) ==
  LET c == ConfidenceBase + ConfidencePenalty * nSynth
  IN  IF c < ConfidenceFloor THEN ConfidenceFloor ELSE c

Confidence(nSynth) ==
  LET c == ConfidenceBase - ConfidencePenalty * nSynth
  IN  IF c < ConfidenceFloor THEN ConfidenceFloor ELSE c

\* the number of synthesized sources among crime and weather
Synthesized(crimeLive, weatherLive) ==
  (IF crimeLive THEN 0 ELSE 1) + (IF weatherLive THEN 0 ELSE 1)

\* the hot band closed below 35 degrees only
TemperatureBandOpen(t) ==
  IF t < 0 THEN "Extreme Cold"
  ELSE IF t < 100 THEN "Cold"
  ELSE IF t < 300 THEN "Comfortable"
  ELSE IF t < 350 THEN "Hot"
  ELSE "Extreme Heat"

\* the temperature band of t tenths of a degree: bands include their lower
\* bound, and 35 degrees is still hot
TemperatureBand(t) ==
  IF t < 0 THEN "Extreme Cold"
  ELSE IF t < 100 THEN "Cold"
  ELSE IF t < 300 THEN "Comfortable"
  ELSE IF t <= 350 THEN "Hot"
  ELSE "Extreme Heat"

\* the risk of a temperature band
TemperatureRisk(band) ==
  CASE band \in {"Extreme Cold", "Extreme Heat"} -> "high"
    [] band \in {"Cold", "Hot"}                  -> "moderate"
    [] OTHER                                     -> "low"

\* temperatures around every band edge, in tenths of a degree
TempSamples == (-5 .. 5) \cup (95 .. 105) \cup (295 .. 305) \cup (345 .. 355)

\* the scores of the 1-10 scale
ScoreScale == 1 .. 10

BandIdle ==
  /\ bScore = 1 /\ bTemp = 0
  /\ bCrimeLive = TRUE /\ bWeatherLive = TRUE
  /\ bColor = "none" /\ bLevel = "none"
  /\ bTempBand = "none" /\ bConfidence = 0

BandInit ==
  /\ bScore \in ScoreScale /\ bTemp \in TempSamples
  /\ bCrimeLive \in BOOLEAN /\ bWeatherLive \in BOOLEAN
  /\ bColor = "none" /\ bLevel = "none"
  /\ bTempBand = "none" /\ bConfidence = 0

\* a marker or score badge is rendered for bScore
RenderScore ==
  /\ bLevel = "none"
  /\ bColor' = getSafetyColor(bScore)
  /\ bLevel' = getSafetyLevel(bScore)
  /\ UNCHANGED <<bScore, bTemp, bCrimeLive, bWeatherLive, bTempBand, bConfidence>>
  /\ UNCHANGED <<compVars, synVars, cacheVars, clickVars>>

\* the temperature is classified
ClassifyTemperature ==
  /\ bTempBand = "none"
  /\ bTempBand' = TemperatureBand(bTemp)
  /\ UNCHANGED <<bScore, bTemp, bCrimeLive, bWeatherLive, bColor, bLevel, bConfidence>>
  /\ UNCHANGED <<compVars, synVars, cacheVars, clickVars>>

\* step 6 of assess: the confidence of the assessment
ComputeConfidence ==
  /\ bConfidence = 0
  /\ bConfidence' = Confidence(Synthesized(bCrimeLive, bWeatherLive))
  /\ UNCHANGED <<bScore, bTemp, bCrimeLive, bWeatherLive, bColor, bLevel, bTempBand>>
  /\ UNCHANGED <<compVars, synVars, cacheVars, clickVars>>

\* ---------------------------------------------------------- specifications
vars == <<compVars, synVars, cacheVars, bandVars, clickVars>>

\* the component
Init == CompInit /\ SynIdle /\ CacheInit /\ BandIdle /\ ClickIdle

Next ==
  \/ \E c \in Cities : Mount(c)
  \/ \E c \in Cities : ChangeCity(c)
  \/ \E i \in 1 .. Len(intervals) : Tick(i)
  \/ Unmount
  \/ \E i \in 1 .. Len(calls) : \E o \in Outcomes(calls[i].city) : Settle(i, o)
  \/ \E i \in 1 .. Len(calls) : \E seed \in 0 .. RandDenom - 1 : Resume(i, seed)

Spec == Init /\ [][Next]_vars

\* the synthesizers applied to drawn inputs
SynthInit == CompInit /\ SynInit /\ CacheInit /\ BandIdle /\ ClickIdle

SynthNext == SynthesizeA \/ SynthesizeB

SynthSpec == SynthInit /\ [][SynthNext]_vars

\* the cache layer
CacheNext ==
  \/ \E k \in CacheKeys : \E r \in CacheValues \cup {"fail"} :
       get_or_compute(k, HeatMapTtl, r)
  \/ \E d \in ClockSteps : Advance(d)

CacheSpec == Init /\ [][CacheNext]_vars

\* the banding functions applied to drawn inputs
BandSpecInit == CompInit /\ SynIdle /\ CacheInit /\ BandInit /\ ClickIdle

BandNext == RenderScore \/ ClassifyTemperature \/ ComputeConfidence

BandSpec == BandSpecInit /\ [][BandNext]_vars

\* map clicks on the component once its first fetch has ended; no other
\* handler reads or writes selectedLocation
ClickInit ==
  /\ \E c \in Cities : \E o \in Outcomes(c) : \E seed \in 0 .. RandDenom - 1 :
       /\ o.kind = "ok" => seed = 0
       /\ FetchedState(c, o, seed)
  /\ SynIdle /\ CacheInit /\ BandIdle /\ ClickIdle

ClickNext == \E position \in ClickPoints : handleMapClick(position)

ClickSpec == ClickInit /\ [][ClickNext]_vars

\* ================================================================ claims

\* C1 (as claimed): whenever a call of a mounted component ends after the
\* request rejected, answered non-ok, or its body failed to parse, the state
\* holds the mock data synthesized for the call's city, error is null and
\* loading is false.
C1_FailureAbsorbed ==
  (mounted /\ ev.op = "resume" /\ ev.kind \in FailureKinds) =>
    /\ touristLocations = generateMockTouristData(ev.city, ev.seed, ev.now)
    /\ safetyZones = generateMockSafetyZones(ev.city)
    /\ error = Null
    /\ loading = FALSE

\* C2 (as claimed): for a city name that is no key of the anchor table the
\* location synthesizer returns one location per Delhi anchor, the zone
\* synthesizer returns Delhi's zones, and neither raises.
C2_UnknownCityFallsBack ==
  (synLocsA # NotRun /\ synCityA \notin TableKeys) =>
    /\ synLocsA.kind = "array"
    /\ Len(synLocsA.items) = Len(basePositions["Delhi"])
    /\ synZonesA = Arr(baseZones["Delhi"])

\* the four displayed values are what some fetchTouristData(c) call can store
ShowsDataFor(c) ==
  \/ \E seed \in 0 .. RandDenom - 1 : \E now \in 0 .. MaxTicks :
       LET mock == generateMockTouristData(c, seed, now)
       IN  /\ mock.kind = "array"
           /\ touristLocations = mock
           /\ safetyZones = generateMockSafetyZones(c)
           /\ totalTourists = Num(SumOf(mock.items, "count"), 1)
           /\ averageSafetyScore = Num(SumOf(mock.items, "safetyScore"), Len(mock.items))
  \/ \E o \in Outcomes(c) :
       /\ o.kind = "ok"
       /\ touristLocations = o.data.tourist_locations
       /\ safetyZones = o.data.safety_zones
       /\ totalTourists = o.data.total_tourists
       /\ averageSafetyScore = o.data.average_safety_score

\* C3 (as claimed): once no fetchTouristData call is in flight, the data on
\* display (no error shown) are data obtained for the current city prop.
C3_MapFollowsCity ==
  (mounted /\ calls = <<>> /\ error = Null) => ShowsDataFor(city)

\* C4 (as claimed): no two upstream requests for the same city are
\* outstanding together.
C4_SingleFlight ==
  \A i, j \in 1 .. Len(calls) :
    (i # j /\ calls[i].st = Pending /\ calls[j].st = Pending) =>
      calls[i].city # calls[j].city

\* C5 (as claimed): a call whose upstream has not answered within the
\* timeout bound (a few seconds) is completed as a failed fetch, so no call
\* is still waiting for its answer a whole 30-second period after it started.
C5_NoCallOutlivesTimeout ==
  \A i \in 1 .. Len(calls) :
    calls[i].st = Pending => ticks - calls[i].since < 1

\* C6 (as claimed): in every reachable state touristLocations and
\* safetyZones are sequences and the two totals are numbers.
C6_StateWellTyped ==
  /\ touristLocations.kind = "array"
  /\ safetyZones.kind = "array"
  /\ totalTourists.kind = "number"
  /\ averageSafetyScore.kind = "number"

\* C7: at most one polling timer exists; while mounted it is the timer of
\* the current city and after unmount there is none; mount, city change and
\* every timer tick start a fetch for the current city of the mounted
\* component.
C7_RefreshSchedule ==
  /\ Len(intervals) <= 1
  /\ mounted => intervals = <<city>>
  /\ ~mounted => intervals = <<>>
  /\ ev.op \in {"mount", "change", "tick"} =>
       /\ mounted
       /\ ev.city = city
       /\ calls # <<>>
       /\ calls[Len(calls)].city = city
       /\ calls[Len(calls)].st = Pending

\* a timer tick for the new city, after a city change cleared the old timer
C7_TickAfterChange ==
  ev.op = "tick" /\ changes = 1 /\ Len(calls) = 2 /\ calls[1].city # city

Strip(loc) ==
  [ id |-> loc.id, position |-> loc.position, count |-> loc.count,
    safetyScore |-> loc.safetyScore, nationality |-> loc.nationality,
    groupSize |-> loc.groupSize ]

StripAll(items) == [i \in 1 .. Len(items) |-> Strip(items[i])]

BothRunSameCity == synLocsA # NotRun /\ synLocsB # NotRun /\ synCityA = synCityB

Abs(x) == IF x < 0 THEN -x ELSE x

\* C9 (as claimed): two invocations of the synthesizer with the same city
\* name return identical locations (ids, positions, counts, safety scores,
\* nationalities, group sizes).
C9_Deterministic ==
  (BothRunSameCity /\ synLocsA.kind = "array" /\ synLocsB.kind = "array") =>
    StripAll(synLocsA.items) = StripAll(synLocsB.items)

\* C9 (amended): two invocations with the same city name either both raise
\* or return equally many locations with the same ids in the same order,
\* the positions of corresponding locations within 0.01 degree of each other.
C9_SameShape ==
  BothRunSameCity =>
    /\ synLocsA.kind = synLocsB.kind
    /\ Len(synLocsA.items) = Len(synLocsB.items)
    /\ \A i \in 1 .. Len(synLocsA.items) :
         /\ synLocsA.items[i].id = synLocsB.items[i].id
         /\ Abs(synLocsA.items[i].position.lat - synLocsB.items[i].position.lat) <= 100
         /\ Abs(synLocsA.items[i].position.lng - synLocsB.items[i].position.lng) <= 100

\* two runs for one city whose counts, scores or positions differ
C9_RunsDiffer ==
  /\ BothRunSameCity
  /\ synLocsA.kind = "array"
  /\ StripAll(synLocsA.items) # StripAll(synLocsB.items)

\* a zone radius (metres) in 1e-4 degrees: one such unit is about 11.1 m
RadiusUnits(r) == (r * 9) \div 100

\* the locations within the zone's radius of its centre
Contained(zone, items) ==
  LET Inside(loc) ==
        LET dlat == loc.position.lat - zone.position.lat
            dlng == loc.position.lng - zone.position.lng
        IN  dlat * dlat + dlng * dlng <= RadiusUnits(zone.radius) * RadiusUnits(zone.radius)
  IN  SelectSeq(items, Inside)

\* the band of the average safety score of a non-empty list of locations:
\* 8-10 low risk, 6-7 medium, 4-5 high, below 4 critical
ZoneBand(items) ==
  LET sum == SumOf(items, "safetyScore")
      n   == Len(items)
  IN  IF sum >= 8 * n THEN "low"
      ELSE IF sum >= 6 * n THEN "medium"
      ELSE IF sum >= 4 * n THEN "high"
      ELSE "critical"

\* zone z contains locations in both runs and their averages fall in different bands
BandsDiffer(z) ==
  LET inA == Contained(synZonesA.items[z], synLocsA.items)
      inB == Contained(synZonesB.items[z], synLocsB.items)
  IN  inA # <<>> /\ inB # <<>> /\ ZoneBand(inA) # ZoneBand(inB)

BothZonesSameCity ==
  /\ BothRunSameCity
  /\ synLocsA.kind = "array" /\ synLocsB.kind = "array"
  /\ synZonesA.kind = "array" /\ synZonesB.kind = "array"

ZoneLevels(zones) == [z \in 1 .. Len(zones.items) |-> zones.items[z].safetyLevel]

C11_ScoresOnScale ==
  touristLocations.kind = "array" =>
    \A i \in 1 .. Len(touristLocations.items) :
      /\ "safetyScore" \in DOMAIN touristLocations.items[i]
      /\ touristLocations.items[i].safetyScore \in 1 .. 10

\* C12: for every score of the 1-10 scale the label and the colour are
\* those of the documented band: 8-10 Safe / green, 6-7 Moderate / yellow,
\* 4-5 Caution / orange, 1-3 High Risk / red; label and colour always belong
\* to the same band.
C12_ScoreBands ==
  bLevel # "none" =>
    <<bLevel, bColor>> =
      CASE bScore \in 8 .. 10 -> <<"Safe", "#10b981">>
        [] bScore \in 6 .. 7  -> <<"Moderate", "#fbbf24">>
        [] bScore \in 4 .. 5  -> <<"Caution", "#f97316">>
        [] bScore \in 1 .. 3  -> <<"High Risk", "#ef4444">>

\* the lowest score of the Safe band has been rendered
C12_EdgeOfSafe == bScore = 8 /\ bLevel = "Safe" /\ bColor = "#10b981"

\* C13 (as claimed): the color field of every synthesized zone is the
\* documented colour of its safetyLevel, that is getZoneColor(safetyLevel).
C13_ZoneColourConsistent ==
  (synLocsA # NotRun /\ synZonesA.kind = "array") =>
    \A z \in 1 .. Len(synZonesA.items) :
      synZonesA.items[z].color = getZoneColor(synZonesA.items[z].safetyLevel)

\* C14: the confidence is 1.0 less 0.15 per synthesized source and at least
\* 0.3: 1.0 with both sources live, 0.85 with one synthesized, 0.70 with
\* both; it lies in [0.3, 1.0] and is strictly smaller with both sources
\* synthesized than with both live.
C14_ConfidenceRange ==
  bConfidence # 0 =>
    /\ bConfidence >= 30 /\ bConfidence <= 100
    /\ (bCrimeLive /\ bWeatherLive) => bConfidence = 100
    /\ (bCrimeLive # bWeatherLive) => bConfidence = 85
    /\ (~bCrimeLive /\ ~bWeatherLive) => (bConfidence = 70 /\ bConfidence < 100)

\* an assessment made with both sources synthesized
C14_BothSynthesized == ~bCrimeLive /\ ~bWeatherLive /\ bConfidence = 70

\* t lies in the documented range of the band
InBand(t, band) ==
  CASE band = "Extreme Cold" -> t < 0
    [] band = "Cold"         -> 0 <= t /\ t < 100
    [] band = "Comfortable"  -> 100 <= t /\ t < 300
    [] band = "Hot"          -> 300 <= t /\ t <= 350
    [] band = "Extreme Heat" -> t > 350

TemperatureBands == {"Extreme Cold", "Cold", "Comfortable", "Hot", "Extreme Heat"}

\* C15: every temperature lies in exactly one documented band and is
\* classified as that band; 0 degrees is Cold (moderate) and 35 degrees is
\* Hot (moderate).
C15_TemperatureBands ==
  bTempBand # "none" =>
    /\ Cardinality({b \in TemperatureBands : InBand(bTemp, b)}) = 1
    /\ bTempBand \in TemperatureBands
    /\ InBand(bTemp, bTempBand)
    /\ bTemp = 0 => (bTempBand = "Cold" /\ TemperatureRisk(bTempBand) = "moderate")
    /\ bTemp = 350 => (bTempBand = "Hot" /\ TemperatureRisk(bTempBand) = "moderate")

\* exactly 35 degrees has been classified
C15_ThirtyFive == bTemp = 350 /\ bTempBand = "Hot"

\* C16 (as claimed): every mock safetyScore is an integer in 6..10, and
\* each of 6, 7, 8, 9 and 10 is a score the generator can produce.
C16_ScoresSpanSixToTen ==
  (synLocsA # NotRun /\ synLocsA.kind = "array") =>
    /\ \A i \in 1 .. Len(synLocsA.items) : synLocsA.items[i].safetyScore \in 6 .. 10
    /\ \A v \in 6 .. 10 :
         \E seed \in 0 .. RandDenom - 1 :
           \E i \in 1 .. Len(synLocsA.items) :
             generateMockTouristData(synCityA, seed, 0).items[i].safetyScore = v

\* C17 (as claimed): when a call of the mounted component ends after an ok
\* response with a JSON body, the state holds exactly the body's
\* tourist_locations, safety_zones, total_tourists and average_safety_score
\* (no mock data), error is null and loading is false.
C17_SuccessStored ==
  (mounted /\ ev.op = "resume" /\ ev.kind = "ok") =>
    /\ touristLocations = ev.data.tourist_locations
    /\ safetyZones = ev.data.safety_zones
    /\ totalTourists = ev.data.total_tourists
    /\ averageSafetyScore = ev.data.average_safety_score
    /\ error = Null
    /\ loading = FALSE

\* the indices of the elements of touristLocations nearest to the last click
NearestIndices ==
  {i \in 1 .. Len(touristLocations.items) :
     \A j \in 1 .. Len(touristLocations.items) :
       DistanceSquared(touristLocations.items[i], clickPos)
         <= DistanceSquared(touristLocations.items[j], clickPos)}

\* C18: after a map click on a non-empty touristLocations, selectedLocation
\* is the element of lowest index among those at minimal squared distance
\* from the click.
C18_NearestSelected ==
  (ev.op = "click" /\ touristLocations.kind = "array" /\ touristLocations.items # <<>>) =>
    /\ selectedLocation.kind = "object"
    /\ \E i \in NearestIndices :
         /\ \A j \in NearestIndices : i <= j
         /\ selectedLocation.items[1] = touristLocations.items[i]

\* a click with two locations at the same minimal distance
C18_TieAtMinimum ==
  /\ ev.op = "click"
  /\ touristLocations.kind = "array"
  /\ Cardinality(NearestIndices) >= 2
  /\ selectedLocation.kind = "object"

====
